---- MODULE Spec2Model ----
(***************************************************************************)
(* kiteWS (include/kitepp/kitews.hpp): the websocket client's connection   *)
(* controller, its reconnect back-off and its subscription ledger.         *)
(*                                                                         *)
(* All uWS callbacks run one after the other on the hub's event loop, so   *)
(* every handler is one atomic step.  A handler that calls another         *)
(* (onError -> close(1006) -> onDisconnection -> _reconnect) is modelled   *)
(* by composing operators over a record of the object's fields.            *)
(*                                                                         *)
(* Transports are interchangeable for everything the class does with them: *)
(* `pending` counts the connect attempts in flight, `open` the transports  *)
(* that are open, and WS says whether _WS is non-null (it then points to   *)
(* one of the open transports; onDisconnection nulls it unconditionally).  *)
(***************************************************************************)
EXTENDS Integers, Sequences, FiniteSets, TLC

\* ---------------------------------------------------------------- bounds
\* Instrument tokens the host uses are 1..MaxToken.
MaxToken == 2
\* The host keeps at most this many transports (open or connecting) alive
\* through its own connect() calls.
MaxTransports == 2
\* The host stops calling connect() once _reconnectTries exceeds
\* maxreconnecttries by more than this (caps the counter).
TriesSlack == 1

\* Longest frame of arbitrary bytes handed to the splitter.
MaxFrameLen == 4

\* Most packets in a frame of tick packets.
MaxTickPackets == 2

\* The wall clock stops here.
MaxClock == 3

\* ------------------------------------------------------ program constants
initReconnectDelay == 2
CleanClose == 1000
AbnormalClose == 1006

MODE_LTP == "ltp"
MODE_QUOTE == "quote"
MODE_FULL == "full"
\* std::string mode that is none of the three constants (setMode takes any
\* string) and the empty string subscribe() stores.
OtherMode == "other"
Unset == ""
\* Marker for "no entry under this key" in the ledger function.
Absent == "<absent>"

Tokens == 1..MaxToken
\* Constructor arguments tried: maxreconnectdelay below, between and above
\* the first two back-off values; maxreconnecttries none, one and several.
\* With reconnection disabled the two are never read, so one pair stands
\* for all.
DelayCfgs == {1, 3, 5}
TriesCfgs == {0, 1, 3}
Configs ==
    {[enable |-> TRUE, maxDelay |-> d, maxTries |-> n] :
        d \in DelayCfgs, n \in TriesCfgs}
    \cup {[enable |-> FALSE, maxDelay |-> 5, maxTries |-> 3]}
HostModes == {MODE_LTP, MODE_QUOTE, MODE_FULL, OtherMode}
StoredModes == HostModes \cup {Unset}
\* std::vector<int> arguments of the host: token vectors without repeats,
\* in ascending order (the loops over the vector assign per element, so
\* order and repeats do not change the ledger).
RECURSIVE SeqOfSet(_)
SeqOfSet(S) ==
    IF S = {} THEN <<>>
    ELSE LET m == CHOOSE x \in S : \A y \in S : x <= y
         IN <<m>> \o SeqOfSet(S \ {m})
TokVecs == {SeqOfSet(S) : S \in SUBSET Tokens}
Range(q) == {q[i] : i \in 1..Len(q)}

VARIABLES
    enableReconnect,    \* const bool _enableReconnect
    maxReconnectDelay,  \* const unsigned _maxReconnectDelay
    maxReconnectTries,  \* const unsigned _maxReconnectTries
    WS,                 \* _WS != nullptr
    open,               \* transports that are open
    pending,            \* connect attempts in flight
    subbedInstruments,  \* _subbedInstruments: token -> mode, Absent if no key
    reconnectTries,     \* _reconnectTries
    reconnectDelay,     \* _reconnectDelay
    isReconnecting,     \* _isReconnecting
    out,                \* what the last operation did, in order
    act,                \* the last operation and its arguments
    stopped,            \* stop() was called since the host's last connect()
    episode,            \* events since a non-clean disconnect, see below
    installed,          \* the host callbacks that are set (non-empty)
    lastBeatTime,       \* _lastBeatTime
    clock,              \* std::chrono::system_clock::now()
    msg,                \* the inbound message being handled
    res                 \* what the splitter or the decoder returned for msg

vars == <<enableReconnect, maxReconnectDelay, maxReconnectTries, WS, open,
          pending, subbedInstruments, reconnectTries, reconnectDelay,
          isReconnecting, out, act, stopped, episode,
          installed, lastBeatTime, clock, msg, res>>

recvVars == <<installed, lastBeatTime, clock, msg, res>>
ctrlVars == <<enableReconnect, maxReconnectDelay, maxReconnectTries, WS, open,
              pending, subbedInstruments, reconnectTries, reconnectDelay,
              isReconnecting, stopped, episode>>

\* One observable step of an operation: a host callback invoked, a frame
\* sent, a sleep, a connect initiated, an exception thrown.
Ev(e, n, m, t) == [e |-> e, n |-> n, m |-> m, t |-> t]
E0(e) == Ev(e, 0, "", <<>>)
EN(e, n) == Ev(e, n, "", <<>>)

\* The object's mutable fields as one record, plus the events emitted.
Cur == [WS |-> WS, open |-> open, pending |-> pending,
        ledger |-> subbedInstruments, tries |-> reconnectTries,
        delay |-> reconnectDelay, reconn |-> isReconnecting, out |-> <<>>]

isConnected(s) == s.WS

Emit(s, ev) == [s EXCEPT !.out = Append(@, ev)]

\* ------------------------------------------------------------ the ledger
\* The throw of libException("Not connected to websocket server").
NotConnected == E0("throw NotConnected")

\* Mutant: only tokens that already have an entry are written.
StoreAll_ExistingOnly(ledger, mode, toks) ==
    [k \in Tokens |->
        IF k \in Range(toks) /\ ledger[k] # Absent THEN mode ELSE ledger[k]]

\* for (tok : instrumentToks) _subbedInstruments[tok] = mode;
StoreAll(ledger, mode, toks) ==
    [k \in Tokens |-> IF k \in Range(toks) THEN mode ELSE ledger[k]]

\* Mutant: the loop stops after the first token.
EraseAll_FirstOnly(ledger, toks) ==
    [k \in Tokens |->
        IF toks # <<>> /\ k = toks[1] THEN Absent ELSE ledger[k]]

\* for (tok : instrumentToks) { find; erase if found }
EraseAll(ledger, toks) ==
    [k \in Tokens |-> IF k \in Range(toks) THEN Absent ELSE ledger[k]]

subscribe(s, toks) ==
    IF isConnected(s)
    THEN [Emit(s, Ev("send subscribe", 0, "", toks))
            EXCEPT !.ledger = StoreAll(@, Unset, toks)]
    ELSE Emit(s, NotConnected)

unsubscribe(s, toks) ==
    IF isConnected(s)
    THEN [Emit(s, Ev("send unsubscribe", 0, "", toks))
            EXCEPT !.ledger = EraseAll(@, toks)]
    ELSE Emit(s, NotConnected)

\* Mutant: the ledger is written before the connection is checked.
setMode_StoreFirst(s, mode, toks) ==
    LET s1 == [s EXCEPT !.ledger = StoreAll(@, mode, toks)]
    IN IF isConnected(s)
       THEN Emit(s1, Ev("send mode", 0, mode, toks))
       ELSE Emit(s1, NotConnected)

setMode(s, mode, toks) ==
    IF isConnected(s)
    THEN [Emit(s, Ev("send mode", 0, mode, toks))
            EXCEPT !.ledger = StoreAll(@, mode, toks)]
    ELSE Emit(s, NotConnected)

\* The keys of _subbedInstruments in the order the range-for visits them
\* (unordered_map leaves it unspecified; ascending is the representative).
Keys(ledger) == SeqOfSet({k \in Tokens : ledger[k] # Absent})

\* One pass of the loop body of _resubInstruments over entry (k, mode):
\* four independent ifs, each a push_back.
PushIf(batch, cond, k) == IF cond THEN Append(batch, k) ELSE batch

RECURSIVE Batches(_, _, _)
Batches(ledger, keys, acc) ==
    IF keys = <<>> THEN acc
    ELSE LET k == Head(keys)
             m == ledger[k]
             a1 == [acc EXCEPT !.ltp = PushIf(@, m = MODE_LTP, k)]
             a2 == [a1 EXCEPT !.quote = PushIf(@, m = MODE_QUOTE, k)]
             a3 == [a2 EXCEPT !.full = PushIf(@, m = MODE_FULL, k)]
             a4 == [a3 EXCEPT !.quote = PushIf(@, m = Unset, k)]
         IN Batches(ledger, Tail(keys), a4)

ResubBatches(ledger) ==
    Batches(ledger, Keys(ledger), [ltp |-> <<>>, quote |-> <<>>, full |-> <<>>])

resubInstruments(s) ==
    LET b == ResubBatches(s.ledger)
        s1 == IF b.ltp # <<>> THEN setMode(s, MODE_LTP, b.ltp) ELSE s
        s2 == IF b.quote # <<>> THEN setMode(s1, MODE_QUOTE, b.quote) ELSE s1
        s3 == IF b.full # <<>> THEN setMode(s2, MODE_FULL, b.full) ELSE s2
    IN s3

\* ------------------------------------------------------------ reconnect
\* _connect(): hub.connect(...) starts one more connect attempt.
connect(s) == [Emit(s, E0("connect")) EXCEPT !.pending = @ + 1]

\* _reconnectDelay = (_reconnectDelay * 2 > max) ? max : _reconnectDelay * 2
\* (unsigned arithmetic; the values here stay far below 2^32).
NextDelay(d) == IF d * 2 > maxReconnectDelay THEN maxReconnectDelay ELSE d * 2

\* Mutant: the attempt limit is compared with < instead of <=.
reconnect_OffByOne(s) ==
    IF isConnected(s) THEN s
    ELSE LET s1 == [Emit(s, EN("tries++", s.tries + 1))
                      EXCEPT !.reconn = TRUE, !.tries = @ + 1]
         IN IF s1.tries < maxReconnectTries
            THEN LET s2 == Emit(s1, EN("sleep", s1.delay))
                     s3 == [s2 EXCEPT !.delay = NextDelay(@)]
                     s4 == Emit(s3, EN("onTryReconnect", s3.tries))
                 IN connect(s4)
            ELSE [Emit(s1, E0("onReconnectFail")) EXCEPT !.reconn = FALSE]

\* Mutant: giving up resets the attempt counter.
reconnect_ResetOnFail(s) ==
    IF isConnected(s) THEN s
    ELSE LET s1 == [Emit(s, EN("tries++", s.tries + 1))
                      EXCEPT !.reconn = TRUE, !.tries = @ + 1]
         IN IF s1.tries <= maxReconnectTries
            THEN LET s2 == Emit(s1, EN("sleep", s1.delay))
                     s3 == [s2 EXCEPT !.delay = NextDelay(@)]
                     s4 == Emit(s3, EN("onTryReconnect", s3.tries))
                 IN connect(s4)
            ELSE [Emit(s1, E0("onReconnectFail"))
                    EXCEPT !.reconn = FALSE, !.tries = 0]

reconnect(s) ==
    IF isConnected(s) THEN s
    ELSE LET s1 == [Emit(s, EN("tries++", s.tries + 1))
                      EXCEPT !.reconn = TRUE, !.tries = @ + 1]
         IN IF s1.tries <= maxReconnectTries
            THEN LET s2 == Emit(s1, EN("sleep", s1.delay))
                     s3 == [s2 EXCEPT !.delay = NextDelay(@)]
                     s4 == Emit(s3, EN("onTryReconnect", s3.tries))
                 IN connect(s4)
            ELSE [Emit(s1, E0("onReconnectFail")) EXCEPT !.reconn = FALSE]

\* ------------------------------------------------------- uWS callbacks
\* Mutant: the attempt counter is not reset on an open.
onConnection_NoReset(s) ==
    LET s1 == [s EXCEPT !.pending = @ - 1, !.open = @ + 1, !.WS = TRUE,
                        !.delay = initReconnectDelay, !.reconn = FALSE]
        s2 == IF \E k \in Tokens : s1.ledger[k] # Absent
              THEN resubInstruments(s1) ELSE s1
    IN Emit(s2, E0("onConnect"))

\* Mutant: onConnect is invoked before the resubscription.
onConnection_ConnectFirst(s) ==
    LET s1 == [s EXCEPT !.pending = @ - 1, !.open = @ + 1, !.WS = TRUE,
                        !.tries = 0, !.delay = initReconnectDelay,
                        !.reconn = FALSE]
        s2 == Emit(s1, E0("onConnect"))
    IN IF \E k \in Tokens : s2.ledger[k] # Absent
       THEN resubInstruments(s2) ELSE s2

\* onConnection: one connect attempt in flight has opened.
onConnection(s) ==
    LET s1 == [s EXCEPT !.pending = @ - 1, !.open = @ + 1, !.WS = TRUE,
                        !.tries = 0, !.delay = initReconnectDelay,
                        !.reconn = FALSE]
        s2 == IF \E k \in Tokens : s1.ledger[k] # Absent
              THEN resubInstruments(s1) ELSE s1
    IN Emit(s2, E0("onConnect"))

\* Mutant: the reconnect decision ignores the close code.
onDisconnection_AnyCode(s, code) ==
    LET s1 == [s EXCEPT !.open = @ - 1, !.WS = FALSE]
        s2 == IF code # CleanClose THEN Emit(s1, EN("onError", code)) ELSE s1
        s3 == Emit(s2, EN("onClose", code))
    IN IF enableReconnect /\ ~s3.reconn THEN reconnect(s3) ELSE s3

\* Mutant: the reconnect is started before onClose is invoked.
onDisconnection_ReconnectFirst(s, code) ==
    LET s1 == [s EXCEPT !.open = @ - 1, !.WS = FALSE]
        s2 == IF code # CleanClose THEN Emit(s1, EN("onError", code)) ELSE s1
        s3 == IF code # CleanClose /\ enableReconnect /\ ~s2.reconn
              THEN reconnect(s2) ELSE s2
    IN Emit(s3, EN("onClose", code))

\* onDisconnection: one open transport has closed with `code`.
onDisconnection(s, code) ==
    LET s1 == [s EXCEPT !.open = @ - 1, !.WS = FALSE]
        s2 == IF code # CleanClose THEN Emit(s1, EN("onError", code)) ELSE s1
        s3 == Emit(s2, EN("onClose", code))
    IN IF code # CleanClose /\ enableReconnect /\ ~s3.reconn
       THEN reconnect(s3) ELSE s3

\* onError: one connect attempt in flight has failed.
onError(s) ==
    LET s1 == Emit([s EXCEPT !.pending = @ - 1], E0("onConnectError"))
        s2 == IF isConnected(s1) THEN onDisconnection(s1, AbnormalClose) ELSE s1
    IN IF enableReconnect THEN reconnect(s2) ELSE s2

\* stop(): _WS->close() closes with the default code (1000), and uWS runs
\* the disconnection handler from inside close().
stop(s) == IF isConnected(s) THEN onDisconnection(s, CleanClose) ELSE s

\* ---------------------------------------------------------------------
\* The binary receiver: byte reader, packet splitter, tick decoder.
\* A byte is a number in 0..255; a vector is a sequence, indexed from 0 in
\* the code and from 1 here.

\* bytes[i]; an index past the end reads whatever is in memory there, g.
At(bytes, i, g) == IF i < Len(bytes) THEN bytes[i + 1] ELSE g

\* The iterator range [begin+start, begin+end+1) lies inside the vector.
InRange(bytes, start, end) == start <= end + 1 /\ end < Len(bytes)

\* A byte as the top byte of a two's complement integer.
SignByte(b) == IF b >= 128 THEN b - 256 ELSE b

\* memcpy into a signed integer on a little-endian host: the first w
\* bytes of mem, least significant first, the last of them with the sign.
RECURSIVE LittleEndian(_, _)
LittleEndian(mem, w) ==
    IF w = 1 THEN SignByte(Head(mem))
    ELSE Head(mem) + 256 * LittleEndian(Tail(mem), w - 1)

Reverse(q) == [i \in 1..Len(q) |-> q[Len(q) + 1 - i]]

\* _getNum without the std::reverse.
getNum_NoReverse(w, bytes, start, end, g) ==
    LET requiredBytes == [i \in 1..(end - start + 1) |->
                              At(bytes, start + i - 1, g)]
    IN  LittleEndian(requiredBytes, w)

\* _getNum<T>(bytes, start, end) with sizeof(T) = w, built without
\* WORDS_BIGENDIAN: copy bytes[start..end], reverse, memcpy w bytes.
getNum(w, bytes, start, end, g) ==
    LET requiredBytes == [i \in 1..(end - start + 1) |->
                              At(bytes, start + i - 1, g)]
    IN  LittleEndian(Reverse(requiredBytes), w)

\* The loop of _splitPackets from iteration i on.  It stops at the first
\* read outside the frame (oob): what the program does from there on is
\* not defined, and packets holds what had been cut until then.
\* The indices are unsigned int: a sum below zero wraps to a value above
\* every index of the frame, a sum at or above zero below the packet's
\* start gives a range that ends before it starts.
RECURSIVE splitLoop(_, _, _, _, _)
splitLoop(bytes, numberOfPackets, i, packetLengthStartIdx, packets) ==
    IF i > numberOfPackets
    THEN [oob |-> FALSE, packets |-> packets]
    ELSE LET packetLengthEndIdx == packetLengthStartIdx + 1
         IN  IF ~InRange(bytes, packetLengthStartIdx, packetLengthEndIdx)
             THEN [oob |-> TRUE, packets |-> packets]
             ELSE LET packetLength == getNum(2, bytes, packetLengthStartIdx,
                                             packetLengthEndIdx, 0)
                      nextStartIdx == packetLengthEndIdx + packetLength + 1
                  IN  IF nextStartIdx < packetLengthEndIdx + 1
                         \/ nextStartIdx > Len(bytes)
                      THEN [oob |-> TRUE, packets |-> packets]
                      ELSE splitLoop(bytes, numberOfPackets, i + 1,
                                     nextStartIdx,
                                     Append(packets,
                                            SubSeq(bytes,
                                                   packetLengthEndIdx + 2,
                                                   nextStartIdx)))

splitPackets(bytes) ==
    IF ~InRange(bytes, 0, 1)
    THEN [oob |-> TRUE, packets |-> <<>>]
    ELSE splitLoop(bytes, getNum(2, bytes, 0, 1, 0), 1, 2, <<>>)

segmentConstants ==
    [nse |-> 1, nfo |-> 2, cds |-> 3, bse |-> 4, bfo |-> 5, bsecds |-> 6,
     mcx |-> 7, mcxsx |-> 8, indices |-> 9]

\* The remainder of a division by 256, with the sign of the token.
segment_Remainder(instrumentToken) ==
    IF instrumentToken < 0
    THEN 0 - ((0 - instrumentToken) % 256)
    ELSE instrumentToken % 256

\* instrumentToken & 0xff: the low byte of the token's two's complement
\* bits, which are those of the token plus a multiple of 256.
segment(instrumentToken) == instrumentToken % 256

divisor(seg) == IF seg = segmentConstants.cds THEN 10000000 ELSE 100
tradable(seg) == seg # segmentConstants.indices

\* A double computed as raw / div, kept as the pair (no rounding).
Price(raw, div) == [raw |-> raw, div |-> div]
ZeroPrice == Price(0, 1)
\* The net change: read as a price, or (last - close) * 100 / close.
Read(p) == [derived |-> FALSE, price |-> p, last |-> ZeroPrice,
            close |-> ZeroPrice]
Derived(last, close) == [derived |-> TRUE, price |-> ZeroPrice,
                         last |-> last, close |-> close]

\* A default-constructed tick.
defaultTick ==
    [instrumentToken |-> 0, isTradable |-> FALSE, mode |-> Unset,
     lastPrice |-> ZeroPrice, lastTradedQuantity |-> 0,
     averageTradePrice |-> ZeroPrice, volumeTraded |-> 0,
     totalBuyQuantity |-> 0, totalSellQuantity |-> 0,
     open |-> ZeroPrice, high |-> ZeroPrice, low |-> ZeroPrice,
     close |-> ZeroPrice, netChange |-> Read(ZeroPrice),
     lastTradeTime |-> 0, OI |-> 0, OIDayHigh |-> 0, OIDayLow |-> 0,
     timestamp |-> 0, buy |-> <<>>, sell |-> <<>>]

\* Depth entry i (0..9) of a 184-byte packet.
depthWS(packet, i, div, g) ==
    LET depthStartIdx == 64 + 12 * i
    IN  [quantity |-> getNum(4, packet, depthStartIdx, depthStartIdx + 3, g),
         price |-> Price(getNum(4, packet, depthStartIdx + 4,
                                depthStartIdx + 7, g), div),
         orders |-> getNum(2, packet, depthStartIdx + 8,
                           depthStartIdx + 9, g)]

\* The body of the loop of _parseBinaryMessage: the tick of one packet.
decodePacket(packet, g) ==
    LET packetSize == Len(packet)
        instrumentToken == getNum(4, packet, 0, 3, g)
        div == divisor(segment(instrumentToken))
        I(a) == getNum(4, packet, a, a + 3, g)
        P(a) == Price(I(a), div)
        Tick == [defaultTick EXCEPT
                    !.isTradable = tradable(segment(instrumentToken)),
                    !.instrumentToken = instrumentToken]
    IN  IF packetSize = 8
        THEN [Tick EXCEPT !.mode = MODE_LTP, !.lastPrice = P(4)]
        ELSE IF packetSize = 28 \/ packetSize = 32
        THEN [Tick EXCEPT
                 !.mode = IF packetSize = 28 THEN MODE_QUOTE ELSE MODE_FULL,
                 !.lastPrice = P(4), !.high = P(8), !.low = P(12),
                 !.open = P(16), !.close = P(20), !.netChange = Read(P(24)),
                 !.timestamp = IF packetSize = 32
                               THEN getNum(4, packet, 28, 33, g) ELSE 0]
        ELSE IF packetSize = 44 \/ packetSize = 184
        THEN LET full == packetSize = 184
             IN [Tick EXCEPT
                 !.mode = IF packetSize = 44 THEN MODE_QUOTE ELSE MODE_FULL,
                 !.lastPrice = P(4), !.lastTradedQuantity = I(8),
                 !.averageTradePrice = P(12), !.volumeTraded = I(16),
                 !.totalBuyQuantity = I(20), !.totalSellQuantity = I(24),
                 !.open = P(28), !.high = P(32), !.low = P(36),
                 !.close = P(40),
                 !.netChange = Derived(P(4), P(40)),
                 !.lastTradeTime = IF full THEN I(44) ELSE 0,
                 !.OI = IF full THEN I(48) ELSE 0,
                 !.OIDayHigh = IF full THEN I(52) ELSE 0,
                 !.OIDayLow = IF full THEN I(56) ELSE 0,
                 !.timestamp = IF full THEN I(60) ELSE 0,
                 !.buy = IF full
                         THEN [i \in 1..5 |-> depthWS(packet, i - 1, div, g)]
                         ELSE <<>>,
                 !.sell = IF full
                          THEN [i \in 1..5 |-> depthWS(packet, i + 4, div, g)]
                          ELSE <<>>]
        ELSE Tick

\* Decoding this packet reads outside it: the token of a packet shorter
\* than four bytes, the timestamp of a 32-byte packet (bytes 28..33).
Overreads(packet) == ~InRange(packet, 0, 3) \/ Len(packet) = 32

parseBinaryMessage(bytes, g) ==
    LET sp == splitPackets(bytes)
    IN  [oob |-> sp.oob \/ \E i \in 1..Len(sp.packets) :
                              Overreads(sp.packets[i]),
         packets |-> sp.packets,
         ticks |-> [i \in 1..Len(sp.packets) |->
                        decodePacket(sp.packets[i], g)]]

\* What a byte outside a vector may hold.
Garbage == {0, 255}

\* _processTextMessage, on a parsed text frame: its root, the value of
\* its "type" member (Absent when it has none) and the kind of its
\* "data" member.  inst is the set of callbacks that are set.
LibException == E0("throw libException")
processTextMessage(text, inst) ==
    IF text.root # "object" THEN <<LibException>>
    ELSE IF text.type \in {Absent, ""} THEN <<LibException>>
    ELSE (IF text.type = "order" /\ "onOrderUpdate" \in inst
          THEN <<E0("onOrderUpdate")>> ELSE <<>>)
         \o (IF text.type = "message" /\ "onMessage" \in inst
             THEN <<E0("onMessage")>> ELSE <<>>)
         \o (IF text.type = "error" /\ "onError" \in inst
             THEN <<EN("onError", 0)>> ELSE <<>>)

\* --------------------------------------------------------------- actions
NoEpisode == [on |-> FALSE, evs |-> <<>>]

\* The fields after an operation that took Cur to s.
Becomes(s) ==
    /\ WS' = s.WS
    /\ open' = s.open
    /\ pending' = s.pending
    /\ subbedInstruments' = s.ledger
    /\ reconnectTries' = s.tries
    /\ reconnectDelay' = s.delay
    /\ isReconnecting' = s.reconn
    /\ out' = s.out
    /\ UNCHANGED <<enableReconnect, maxReconnectDelay, maxReconnectTries>>
    /\ UNCHANGED recvVars

\* The controller's fields after construction.
InitController ==
    /\ \E c \in Configs :
        /\ enableReconnect = c.enable
        /\ maxReconnectDelay = c.maxDelay
        /\ maxReconnectTries = c.maxTries
    /\ WS = FALSE
    /\ open = 0
    /\ pending = 0
    /\ subbedInstruments = [k \in Tokens |-> Absent]
    /\ reconnectTries = 0
    /\ reconnectDelay = initReconnectDelay
    /\ isReconnecting = FALSE
    /\ out = <<>>
    /\ act = E0("init")
    /\ stopped = FALSE
    /\ episode = NoEpisode

\* The receiving side after construction: nothing received, the beat time
\* at its default (the epoch).
Callbacks == {"onTicks", "onOrderUpdate", "onMessage", "onError"}
NoText == [root |-> "", type |-> "", data |-> ""]
NoMsg == [op |-> "none", bytes |-> <<>>, text |-> NoText]
NoRes == [op |-> "none", status |-> "", oob |-> FALSE, packets |-> <<>>,
          ticks |-> <<>>]
InitReceiver ==
    /\ lastBeatTime = 0
    /\ clock = 1
    /\ msg = NoMsg
    /\ res = NoRes

\* Construction, with every host callback set.
Init ==
    /\ InitController
    /\ InitReceiver
    /\ installed = Callbacks

\* Host: connect() = _assignCallbacks(); _connect();
Connect ==
    /\ open + pending < MaxTransports
    /\ reconnectTries <= maxReconnectTries + TriesSlack
    /\ Becomes(connect(Cur))
    /\ act' = E0("connect")
    /\ stopped' = FALSE
    /\ episode' = NoEpisode

\* Host: stop()
Stop ==
    /\ Becomes(stop(Cur))
    /\ act' = E0("stop")
    /\ stopped' = TRUE
    /\ episode' = NoEpisode

\* Host: subscribe(toks)
Subscribe ==
    \E toks \in TokVecs :
        /\ Becomes(subscribe(Cur, toks))
        /\ act' = E0("subscribe")
        /\ UNCHANGED <<stopped, episode>>

\* Host: unsubscribe(toks)
Unsubscribe ==
    \E toks \in TokVecs :
        /\ Becomes(unsubscribe(Cur, toks))
        /\ act' = E0("unsubscribe")
        /\ UNCHANGED <<stopped, episode>>

\* Host: setMode(mode, toks)
SetMode ==
    \E mode \in HostModes, toks \in TokVecs :
        /\ Becomes(setMode(Cur, mode, toks))
        /\ act' = E0("setMode")
        /\ UNCHANGED <<stopped, episode>>

\* Event loop: a connect attempt succeeds.
OnConnection ==
    /\ pending > 0
    /\ Becomes(onConnection(Cur))
    /\ act' = E0("onConnection")
    /\ episode' = NoEpisode
    /\ UNCHANGED stopped

\* Event loop: a connect attempt fails.  While an episode is being
\* recorded, what the handler did is appended to it.
OnError ==
    /\ pending > 0
    /\ Becomes(onError(Cur))
    /\ act' = E0("onError")
    /\ episode' = IF episode.on
                  THEN [episode EXCEPT !.evs = @ \o onError(Cur).out]
                  ELSE NoEpisode
    /\ UNCHANGED stopped

\* Event loop: the peer or the network closes an open transport.  An
\* episode starts when the only transport, the connected one, is lost
\* non-cleanly with reconnection enabled and nothing else in flight.
OnDisconnection ==
    \E code \in {CleanClose, AbnormalClose} :
        /\ open > 0
        /\ Becomes(onDisconnection(Cur, code))
        /\ act' = EN("onDisconnection", code)
        /\ episode' = IF /\ code # CleanClose /\ enableReconnect
                         /\ WS /\ open = 1 /\ pending = 0
                      THEN [on |-> TRUE, evs |-> onDisconnection(Cur, code).out]
                      ELSE NoEpisode
        /\ UNCHANGED stopped

Next ==
    \/ Connect
    \/ Stop
    \/ Subscribe
    \/ Unsubscribe
    \/ SetMode
    \/ OnConnection
    \/ OnError
    \/ OnDisconnection

Spec == Init /\ [][Next]_vars

\* The controller without the host's ledger calls: the host connects and
\* stops, the event loop delivers opens, failures and closes.
NextConn ==
    \/ Connect
    \/ Stop
    \/ OnConnection
    \/ OnError
    \/ OnDisconnection

SpecConn == Init /\ [][NextConn]_vars

\* Every operation, for a client constructed with reconnection off and
\* for one constructed with it on.
LedgerConfigs ==
    {[enable |-> e, maxDelay |-> 5, maxTries |-> 3] : e \in BOOLEAN}

InitLedger ==
    /\ Init
    /\ \E c \in LedgerConfigs :
        /\ enableReconnect = c.enable
        /\ maxReconnectDelay = c.maxDelay
        /\ maxReconnectTries = c.maxTries

SpecLedger == InitLedger /\ [][Next]_vars

\* ---------------------------------------------------------------------
\* The splitter and the decoder applied to one binary frame.

\* Frames of arbitrary bytes: 128 makes a count or a length negative.
SplitBytes == {0, 1, 2, 128}
ArbFrames == UNION {[1..n -> SplitBytes] : n \in 0..MaxFrameLen}

\* Frames the server's format defines: a count, then each packet behind
\* its length, all big-endian.
BE16(n) == <<(n \div 256) % 256, n % 256>>
RECURSIVE Concat(_)
Concat(ps) ==
    IF ps = <<>> THEN <<>> ELSE BE16(Len(Head(ps))) \o Head(ps) \o Concat(Tail(ps))
Encode(ps) == BE16(Len(ps)) \o Concat(ps)

\* Tick packets: the lengths the decoder knows, and three it does not;
\* tokens of either sign in the segments nse, cds and indices.
PacketLens == {0, 3, 8, 10, 28, 32, 44, 184}
TokenHi == {0, 255}
TokenLow == {segmentConstants.nse, segmentConstants.cds,
             segmentConstants.indices}
Packet(len, hi, low) ==
    [k \in 1..len |-> IF k = 1 THEN hi
                      ELSE IF k = 2 THEN 0
                      ELSE IF k = 3 THEN 1
                      ELSE IF k = 4 THEN low
                      ELSE (k * 37 + low * 5) % 256]
LenSeqs == UNION {[1..n -> PacketLens] : n \in 0..MaxTickPackets}
TickFrames ==
    {Encode([i \in 1..Len(ls) |-> Packet(ls[i], hi, low)]) :
        ls \in LenSeqs, hi \in TokenHi, low \in TokenLow}

Binary(bytes) == [op |-> "binary", bytes |-> bytes, text |-> NoText]

InitFrames ==
    /\ InitController
    /\ enableReconnect = FALSE
    /\ lastBeatTime = 0
    /\ clock = 1
    /\ installed = Callbacks
    /\ res = NoRes
    /\ \E f \in ArbFrames \cup TickFrames : msg = Binary(f)

\* What the caller gets: the value returned, or, after a read outside a
\* vector, possibly no value at all.
Outcome(op, r, crash) ==
    IF crash
    THEN [op |-> op, status |-> "crashed", oob |-> TRUE, packets |-> <<>>,
          ticks |-> <<>>]
    ELSE [op |-> op, status |-> "returned", oob |-> r.oob,
          packets |-> r.packets, ticks |-> r.ticks]

\* _splitPackets(msg)
SplitPackets ==
    /\ res = NoRes
    /\ LET sp == splitPackets(msg.bytes)
       IN  \E crash \in BOOLEAN :
            /\ crash => sp.oob
            /\ res' = Outcome("split", [oob |-> sp.oob,
                                        packets |-> sp.packets,
                                        ticks |-> <<>>], crash)
    /\ UNCHANGED <<ctrlVars, out, act, installed, lastBeatTime, clock, msg>>

\* _parseBinaryMessage(msg)
ParseBinaryMessage ==
    /\ res = NoRes
    /\ \E g \in Garbage, crash \in BOOLEAN :
        LET r == parseBinaryMessage(msg.bytes, g)
        IN  /\ crash => r.oob
            /\ res' = Outcome("parse", r, crash)
    /\ UNCHANGED <<ctrlVars, out, act, installed, lastBeatTime, clock, msg>>

NextFrames ==
    \/ SplitPackets
    \/ ParseBinaryMessage

SpecFrames == InitFrames /\ [][NextFrames]_vars

\* ---------------------------------------------------------------------
\* Messages arriving on an open transport, for every set of callbacks the
\* host may have set.

BinaryMsgs ==
    {Binary(f) : f \in {<<0>>, <<>>, <<0, 0>>, <<0, 1>>,
                        Encode(<<Packet(8, 0, segmentConstants.nse)>>),
                        Encode(<<Packet(32, 255, segmentConstants.indices),
                                 Packet(44, 0, segmentConstants.cds)>>)}}

\* Text frames: an object with or without a type, with the data its type
\* calls for, or a root that is no object.
DataOf(type) == IF type = "order" THEN "object" ELSE "string"
TextTypes == {Absent, "", "order", "message", "error", "other"}
TextMsgs ==
    {[op |-> "text", bytes |-> <<>>,
      text |-> [root |-> "object", type |-> t, data |-> DataOf(t)]] :
        t \in TextTypes}
    \cup {[op |-> "text", bytes |-> <<>>,
           text |-> [root |-> "array", type |-> Absent, data |-> Absent]]}

InitMsg ==
    /\ InitController
    /\ enableReconnect = FALSE
    /\ InitReceiver
    /\ installed \in SUBSET Callbacks

\* The wall clock advances.
Tick ==
    /\ clock < MaxClock
    /\ clock' = clock + 1
    /\ UNCHANGED <<ctrlVars, out, act, installed, lastBeatTime, msg, res>>

\* Event loop: a message arrives (the onMessage handler).
OnMessage ==
    /\ open > 0
    /\ \E m \in BinaryMsgs \cup TextMsgs :
        LET binary == m.op = "binary" /\ "onTicks" \in installed
            heartbeat == binary /\ Len(m.bytes) = 1
            parsed == binary /\ Len(m.bytes) # 1
        IN  \E g \in IF parsed THEN Garbage ELSE {0},
               crash \in IF parsed THEN BOOLEAN ELSE {FALSE} :
            LET r == parseBinaryMessage(m.bytes, g)
            IN
            /\ crash => r.oob
            /\ msg' = m
            /\ lastBeatTime' = IF heartbeat THEN clock ELSE lastBeatTime
            /\ res' = IF parsed THEN Outcome("parse", r, crash) ELSE NoRes
            /\ out' = IF heartbeat THEN <<>>
                      ELSE IF parsed
                      THEN IF crash THEN <<E0("crash")>>
                           ELSE <<EN("onTicks", Len(r.ticks))>>
                      ELSE IF m.op = "text"
                      THEN processTextMessage(m.text, installed)
                      ELSE <<>>
    /\ act' = E0("onMessage")
    /\ UNCHANGED <<ctrlVars, installed, clock>>

NextMsg ==
    \/ Connect
    \/ OnConnection
    \/ Tick
    \/ OnMessage

SpecMsg == InitMsg /\ [][NextMsg]_vars

\* ---- Reading a frame by its layout, for the claims ----
RECURSIVE BigEndian(_)
BigEndian(q) ==
    IF q = <<>> THEN 0
    ELSE 256 * BigEndian(SubSeq(q, 1, Len(q) - 1)) + q[Len(q)]
\* A big-endian two's complement integer of two or four bytes.
BEInt(q) ==
    (IF q[1] >= 128 THEN q[1] - 256 ELSE q[1]) * 256 ^ (Len(q) - 1)
        + BigEndian(Tail(q))

\* Walk n length-prefixed packets from position pos (1-based): ok when
\* all of them lie in the frame, next is the position behind the last.
RECURSIVE Walk(_, _, _, _)
Walk(F, n, pos, acc) ==
    IF n <= 0 THEN [ok |-> TRUE, off |-> FALSE, next |-> pos, packets |-> acc]
    ELSE IF pos + 1 > Len(F)
    THEN [ok |-> FALSE, off |-> TRUE, next |-> pos, packets |-> acc]
    ELSE LET len == BEInt(SubSeq(F, pos, pos + 1))
         IN  IF len < 0
             THEN [ok |-> FALSE, off |-> FALSE, next |-> pos, packets |-> acc]
             ELSE IF pos + 1 + len > Len(F)
             THEN [ok |-> FALSE, off |-> TRUE, next |-> pos, packets |-> acc]
             ELSE Walk(F, n - 1, pos + 2 + len,
                       Append(acc, SubSeq(F, pos + 2, pos + 1 + len)))

Declared(F) == BEInt(SubSeq(F, 1, 2))
Layout(F) == Walk(F, Declared(F), 3, <<>>)
\* F is a count n >= 0 followed by exactly n length-prefixed packets.
ValidFrame(F) ==
    /\ Len(F) >= 2
    /\ Declared(F) >= 0
    /\ Layout(F).ok
    /\ Layout(F).next = Len(F) + 1
\* F is shorter than its header, or a declared packet ends behind it.
WalksOff(F) == Len(F) < 2 \/ Layout(F).off

\* ============================================================== claims
IsSend(ev) == ev.e = "send mode"
Sends(evs) == SelectSeq(evs, IsSend)
Size(ledger) == Cardinality({k \in Tokens : ledger[k] # Absent})
RECURSIVE SumLen(_)
SumLen(evs) == IF evs = <<>> THEN 0 ELSE Len(Head(evs).t) + SumLen(Tail(evs))
LedgerOps == {"subscribe", "unsubscribe", "setMode"}
ReconnectSteps ==
    {"tries++", "sleep", "onTryReconnect", "connect", "onReconnectFail"}
ValidModes == {MODE_LTP, MODE_QUOTE, MODE_FULL}

\* C1: a successful open and its resubscription leave the ledger exactly
\* as it was, key by key and mode by mode, unset entries included.
C1_ReconnectKeepsLedger ==
    [][act'.e = "onConnection" => subbedInstruments' = subbedInstruments]_vars

\* C2: subscribe(tokens) on a connected controller inserts each absent
\* token with the unset mode and leaves every existing entry as it was.
C2_SubscribeKeepsExisting ==
    [][(act'.e = "subscribe" /\ WS) =>
        \A k \in Tokens :
            subbedInstruments'[k] =
                IF subbedInstruments[k] = Absent /\ k \in Range(out'[1].t)
                THEN Unset ELSE subbedInstruments[k]]_vars

\* C3: subscribe, unsubscribe and setMode on a controller that is not
\* connected throw NotConnected, send nothing and leave the ledger as it was.
C3_NotConnectedRejected ==
    [][(act'.e \in LedgerOps /\ ~WS) =>
        /\ out' = <<NotConnected>>
        /\ subbedInstruments' = subbedInstruments]_vars

\* C3 witness: setMode was refused while the ledger holds an entry.
C3_Witness ==
    /\ act.e = "setMode"
    /\ ~WS
    /\ out = <<NotConnected>>
    /\ Size(subbedInstruments) > 0

\* C4: on an open, the lengths of the per-mode batches sent add up to the
\* ledger size, every unset entry is in the QUOTE batch, and each batch is
\* one non-empty setMode request (at most one request per mode).
C4_BatchesCoverLedger ==
    [][act'.e = "onConnection" =>
        LET sent == Sends(out') IN
        /\ SumLen(sent) = Size(subbedInstruments)
        /\ \A k \in Tokens : subbedInstruments[k] = Unset =>
              \E i \in 1..Len(sent) :
                  sent[i].m = MODE_QUOTE /\ k \in Range(sent[i].t)
        /\ \A i \in 1..Len(sent) : sent[i].t # <<>> /\ sent[i].m \in ValidModes
        /\ \A i, j \in 1..Len(sent) : sent[i].m = sent[j].m => i = j]_vars

\* The delays slept in a sequence of events, in order.
IsSleep(ev) == ev.e = "sleep"
Slept(evs) == LET z == SelectSeq(evs, IsSleep) IN [i \in 1..Len(z) |-> z[i].n]

\* C5: no back-off sleep is longer than maxDelay, and the delays slept
\* during one reconnection never decrease.
C5_BackoffWithinMaxDelay ==
    /\ \A i \in 1..Len(out) :
          out[i].e = "sleep" => out[i].n <= maxReconnectDelay
    /\ LET d == Slept(episode.evs)
       IN \A i \in 1..(Len(d) - 1) : d[i] <= d[i + 1]

\* The back-off delay before attempt i, as the specification gives it:
\* initialDelay first, then min(2 * previous, maxDelay).
RECURSIVE DelayBefore(_)
DelayBefore(i) ==
    IF i = 1 THEN initReconnectDelay
    ELSE LET d == 2 * DelayBefore(i - 1)
         IN IF d < maxReconnectDelay THEN d ELSE maxReconnectDelay

\* What a reconnection that never gets through does, start to end: the
\* close is reported, attempts 1..n are each slept for, announced, started
\* and seen to fail, and attempt n+1 is refused.
RECURSIVE Attempts(_)
Attempts(n) ==
    IF n = 0 THEN <<>>
    ELSE Attempts(n - 1) \o
         <<EN("tries++", n), EN("sleep", DelayBefore(n)),
           EN("onTryReconnect", n), E0("connect"), E0("onConnectError")>>
FailedReconnection(n) ==
    <<EN("onError", AbnormalClose), EN("onClose", AbnormalClose)>>
    \o Attempts(n)
    \o <<EN("tries++", n + 1), E0("onReconnectFail")>>

IsPrefix(p, q) == Len(p) <= Len(q) /\ SubSeq(q, 1, Len(p)) = p
Exhausted(evs) == evs # <<>> /\ evs[Len(evs)].e = "onReconnectFail"

\* C6: with reconnection enabled and maxTries = N, a non-clean disconnect
\* followed only by failing attempts makes exactly attempts 1..N, each after
\* its back-off sleep; the failure after that invokes onReconnectFail,
\* clears the reconnecting flag and starts nothing more.  With N = 3 and
\* maxDelay = 5 the sleeps are 2, 4, 5.
C6_ExactlyMaxTriesAttempts ==
    episode.on =>
        LET whole == FailedReconnection(maxReconnectTries) IN
        /\ IsPrefix(episode.evs, whole)
        /\ Exhausted(episode.evs) <=> pending = 0
        /\ Exhausted(episode.evs) =>
              /\ episode.evs = whole
              /\ ~isReconnecting
              /\ open = 0
              /\ (maxReconnectTries = 3 /\ maxReconnectDelay = 5) =>
                    Slept(episode.evs) = <<2, 4, 5>>

\* C6 witness: three attempts after sleeps of 2, 4 and 5 have all failed.
C6_Witness ==
    /\ episode.on
    /\ Exhausted(episode.evs)
    /\ maxReconnectTries = 3
    /\ Slept(episode.evs) = <<2, 4, 5>>

\* C7: once stop() has been called the controller initiates no connect.
C7_NoConnectAfterStop ==
    stopped => \A i \in 1..Len(out) : out[i].e # "connect"

\* C8: a close with code 1000 invokes onClose alone and starts no
\* reconnect step, whatever enableReconnect and the reconnecting flag are.
C8_CleanCloseNoReconnect ==
    [][((act'.e = "onDisconnection" /\ act'.n = CleanClose)
          \/ (act'.e = "stop" /\ WS)) =>
        /\ out' = <<EN("onClose", CleanClose)>>
        /\ pending' = pending
        /\ reconnectTries' = reconnectTries
        /\ reconnectDelay' = reconnectDelay
        /\ isReconnecting' = isReconnecting]_vars

\* C8 witness: a clean close with reconnection enabled and the flag set.
C8_Witness ==
    /\ act.e = "onDisconnection"
    /\ act.n = CleanClose
    /\ enableReconnect
    /\ isReconnecting
    /\ out = <<EN("onClose", CleanClose)>>

\* C9: a non-clean disconnect (delivered by the event loop, or caused by
\* onError closing the transport with 1006) invokes onError(code) and then
\* onClose(code), and no reconnect step comes before the two.
C9_CloseReportedBeforeReconnect ==
    [][((act'.e = "onDisconnection" /\ act'.n # CleanClose)
          \/ (act'.e = "onError" /\ WS)) =>
        LET code == IF act'.e = "onError" THEN AbnormalClose ELSE act'.n IN
        \E i \in 1..(Len(out') - 1) :
            /\ out'[i] = EN("onError", code)
            /\ out'[i + 1] = EN("onClose", code)
            /\ \A j \in 1..(i + 1) : out'[j].e \notin ReconnectSteps]_vars

\* C9 witness: a 1006 close was reported and a reconnect was then started.
C9_Witness ==
    /\ act.e = "onDisconnection"
    /\ act.n = AbnormalClose
    /\ Len(out) > 2
    /\ out[Len(out)].e = "connect"

\* The tokens an open must resubscribe at mode m: the entries stored with
\* m, and for QUOTE the unset ones too.
Resub(ledger, m) ==
    {k \in Tokens : ledger[k] = m \/ (m = MODE_QUOTE /\ ledger[k] = Unset)}

\* C10: an open resets tries to 0 and delay to the initial delay, clears
\* the reconnecting flag, sends one setMode request per non-empty mode
\* batch of the ledger, and invokes onConnect once, after all of them.
C10_ResubscribeThenOnConnect ==
    [][act'.e = "onConnection" =>
        LET n == Len(out') IN
        /\ reconnectTries' = 0
        /\ reconnectDelay' = initReconnectDelay
        /\ ~isReconnecting'
        /\ n >= 1 /\ out'[n] = E0("onConnect")
        /\ \A i \in 1..(n - 1) : out'[i].e = "send mode"
        /\ \A m \in ValidModes :
              LET R == Resub(subbedInstruments, m)
                  I == {i \in 1..(n - 1) : out'[i].m = m}
              IN /\ (R = {}) <=> (I = {})
                 /\ \A i \in I : Range(out'[i].t) = R
                 /\ Cardinality(I) <= 1]_vars

\* C10 witness: an open that sent two setMode requests before onConnect.
C10_Witness ==
    /\ act.e = "onConnection"
    /\ Len(out) = 3
    /\ out[1].e = "send mode" /\ out[2].e = "send mode"
    /\ out[3] = E0("onConnect")

\* C11: whenever the controller is connected the attempt counter is zero
\* and the back-off delay is the initial delay.
C11_ConnectedMeansReset ==
    WS => reconnectTries = 0 /\ reconnectDelay = initReconnectDelay

\* C11 witness: connected, reconnection enabled, while another attempt is
\* still in flight.
C11_Witness ==
    /\ WS
    /\ act.e = "onConnection"
    /\ enableReconnect
    /\ pending > 0

\* C12: the transports that are open or connecting are never more than one.
C12_AtMostOneTransport == open + pending <= 1

\* C14: setMode(M, X) on a connected controller leaves every token of X at
\* mode M, subscribed before or not, and every other entry as it was.
C14_SetModeStoresMode ==
    [][(act'.e = "setMode" /\ WS) =>
        /\ Len(out') = 1 /\ out'[1].e = "send mode"
        /\ \A k \in Tokens :
              subbedInstruments'[k] =
                  IF k \in Range(out'[1].t) THEN out'[1].m
                  ELSE subbedInstruments[k]]_vars

\* C14 witness: setMode("full", {1, 2}) acted on a connected controller.
C14_Witness ==
    /\ act.e = "setMode"
    /\ WS
    /\ out = <<Ev("send mode", 0, MODE_FULL, <<1, 2>>)>>
    /\ subbedInstruments[1] = MODE_FULL
    /\ subbedInstruments[2] = MODE_FULL

\* C15: subscribe(X) followed by unsubscribe(X) on a connected controller
\* leaves no token of X in the ledger, whatever mode it held, and every
\* entry outside X as it was.  Stated on the two steps: subscribe(X) leaves
\* the entries outside X alone, and the unsubscribe(X) that follows it
\* removes X and leaves the entries outside X alone.
C15_SubscribeThenUnsubscribe ==
    [][/\ (act'.e = "subscribe" /\ WS) =>
            \A k \in Tokens \ Range(out'[1].t) :
                subbedInstruments'[k] = subbedInstruments[k]
       /\ (/\ act.e = "subscribe" /\ out # <<NotConnected>>
           /\ act'.e = "unsubscribe" /\ WS
           /\ out'[1].t = out[1].t) =>
            \A k \in Tokens :
                subbedInstruments'[k] =
                    IF k \in Range(out[1].t) THEN Absent
                    ELSE subbedInstruments[k]]_vars

\* C15 witness: unsubscribe({1, 2}) acted and left the ledger empty.
C15_Witness ==
    /\ act.e = "unsubscribe"
    /\ WS
    /\ out = <<Ev("send unsubscribe", 0, "", <<1, 2>>)>>
    /\ Size(subbedInstruments) = 0

\* C17: for a frame with a valid header (a big-endian count n, then n
\* packets each behind its big-endian length) the splitter returns
\* exactly n packets, in frame order, and the count followed by each
\* packet's length and payload is the frame again.
C17_SplitReconstructsFrame ==
    (res.op = "split" /\ ValidFrame(msg.bytes)) =>
        /\ res.status = "returned"
        /\ ~res.oob
        /\ Len(res.packets) = Declared(msg.bytes)
        /\ res.packets = Layout(msg.bytes).packets
        /\ Encode(res.packets) = msg.bytes

C17_Witness ==
    /\ res.op = "split"
    /\ ValidFrame(msg.bytes)
    /\ Len(res.packets) = 2
    /\ Len(res.packets[1]) = 184
    /\ Len(res.packets[2]) = 8

\* C18: for a frame whose count or lengths walk off its end (a frame
\* shorter than its header included) the splitter fails with
\* MalformedFrame: it reads no byte outside the frame and returns no
\* packets.
C18_WalkOffIsMalformedFrame ==
    (res.op = "split" /\ WalksOff(msg.bytes)) =>
        /\ res.status = "MalformedFrame"
        /\ ~res.oob
        /\ res.packets = <<>>

ModeOfLength(n) ==
    IF n = 8 THEN MODE_LTP
    ELSE IF n \in {28, 44} THEN MODE_QUOTE
    ELSE IF n \in {32, 184} THEN MODE_FULL
    ELSE Unset

\* Depth entry k (0..9) of a 184-byte packet, read by the layout.
DepthAt(p, k, div) ==
    [quantity |-> BEInt(SubSeq(p, 65 + 12 * k, 68 + 12 * k)),
     price |-> Price(BEInt(SubSeq(p, 69 + 12 * k, 72 + 12 * k)), div),
     orders |-> BEInt(SubSeq(p, 73 + 12 * k, 74 + 12 * k))]

\* C19: the decoder emits exactly one tick per packet, in packet order,
\* with the mode chosen by the packet's length alone (8 LTP, 28 and 44
\* QUOTE, 32 and 184 FULL); a packet of any other length gives a default
\* tick with only token and tradability filled, and decoding goes on; the
\* ten depth entries of a 184-byte packet are decoded in order, 0..4 into
\* buy and 5..9 into sell.
C19_OneTickPerPacketByLength ==
    (res.op = "parse" /\ ValidFrame(msg.bytes)) =>
        LET ps == Layout(msg.bytes).packets
        IN  /\ res.status = "returned"
            /\ Len(res.ticks) = Len(ps)
            /\ \A i \in 1..Len(ps) :
                LET t == res.ticks[i]
                    n == Len(ps[i])
                IN  /\ t.mode = ModeOfLength(n)
                    /\ ModeOfLength(n) = Unset =>
                          t = [defaultTick EXCEPT
                                  !.instrumentToken = t.instrumentToken,
                                  !.isTradable = t.isTradable]
                    /\ n = 184 =>
                          /\ t.buy = [k \in 1..5 |->
                                DepthAt(ps[i], k - 1, t.lastPrice.div)]
                          /\ t.sell = [k \in 1..5 |->
                                DepthAt(ps[i], k + 4, t.lastPrice.div)]

\* The low 8 bits of a token: the byte that differs from it by a
\* multiple of 256.
LowBits(tok) == CHOOSE b \in 0..255 : (tok - b) % 256 = 0

\* C20: for every tick produced from a packet, the segment code is the
\* low 8 bits of the signed 32-bit token (the packet's fourth byte): the
\* prices are divided by 10,000,000 exactly when it is 3 and by 100
\* otherwise, and the tick is non-tradable exactly when it is 9, for
\* negative tokens too.
C20_SegmentIsLowByteOfToken ==
    (res.op = "parse" /\ res.status = "returned") =>
        \A i \in 1..Len(res.ticks) :
            LET t == res.ticks[i]
                p == res.packets[i]
                code == LowBits(t.instrumentToken)
                div == IF code = 3 THEN 10000000 ELSE 100
            IN  /\ Len(p) >= 4 =>
                      /\ t.instrumentToken = BEInt(SubSeq(p, 1, 4))
                      /\ code = p[4]
                /\ t.isTradable = (code # 9)
                /\ t.mode # Unset =>
                      /\ t.lastPrice.div = div
                      /\ t.lastPrice.raw = BEInt(SubSeq(p, 5, 8))
                /\ t.mode \in {MODE_QUOTE, MODE_FULL} => t.close.div = div
                /\ \A k \in 1..Len(t.sell) : t.sell[k].price.div = div

C20_Witness ==
    /\ res.op = "parse"
    /\ res.status = "returned"
    /\ \E i \in 1..Len(res.ticks) :
        /\ res.ticks[i].instrumentToken < 0
        /\ res.ticks[i].mode = MODE_FULL
        /\ res.ticks[i].lastPrice.div = 10000000
        /\ Len(res.ticks[i].sell) = 5

\* C13: every binary frame of one byte is a heartbeat: it sets the last
\* heartbeat time to the current time and emits no tick, whichever host
\* callbacks are set; a frame of any other length leaves the last
\* heartbeat time as it was.
C13_HeartbeatUpdatesBeatTime ==
    [][(act'.e = "onMessage" /\ clock' = clock) =>
          IF msg'.op = "binary" /\ Len(msg'.bytes) = 1
          THEN /\ lastBeatTime' = clock
               /\ \A i \in 1..Len(out') : out'[i].e # "onTicks"
          ELSE lastBeatTime' = lastBeatTime]_vars

\* C16: the text router dispatches by the type member: "order" to
\* onOrderUpdate, "message" to onMessage, "error" to onError with code 0;
\* it fails on any other type, on a missing type and on a root that is
\* no object, and then calls no host callback.
C16_TextRouterDispatch ==
    (act.e = "onMessage" /\ msg.op = "text") =>
        LET type == msg.text.type
            Call(cb, ev) == IF cb \in installed THEN <<ev>> ELSE <<>>
        IN  IF msg.text.root # "object" \/ type \in {Absent, ""}
            THEN out = <<LibException>>
            ELSE IF type = "order"
            THEN out = Call("onOrderUpdate", E0("onOrderUpdate"))
            ELSE IF type = "message"
            THEN out = Call("onMessage", E0("onMessage"))
            ELSE IF type = "error"
            THEN out = Call("onError", EN("onError", 0))
            ELSE Len(out) = 1 /\ out[1].e = "throw libException"

IsTry(ev) == ev.e = "tries++"
IsConnect(ev) == ev.e = "connect"

\* C21: when the error callback and the disconnect callback both run for
\* one failure (the error callback closing a still-open transport with
\* 1006 runs the disconnect callback inside it), the reconnecting flag
\* lets the tries counter be incremented at most once and at most one
\* new connect be initiated.
C21_ReconnectEnteredOnce ==
    act.e = "onError" =>
        /\ Len(SelectSeq(out, IsTry)) <= 1
        /\ Len(SelectSeq(out, IsConnect)) <= 1

\* C22: the attempt counter and the backoff delay are reset only by the
\* open callback; once the counter is above maxTries (onReconnectFail
\* has been invoked) a failed connect attempt, such as that of a later
\* host connect(), invokes onReconnectFail at once: no sleep, no
\* onTryReconnect, no retry, and the counter stays above maxTries.
C22_ResetOnlyByOpen ==
    [][/\ (reconnectTries' < reconnectTries
           \/ (reconnectDelay' = initReconnectDelay
               /\ reconnectDelay # initReconnectDelay))
          => act'.e = "onConnection"
       /\ (enableReconnect /\ reconnectTries > maxReconnectTries
           /\ act'.e = "onError")
          => /\ out' = <<E0("onConnectError"),
                         EN("tries++", reconnectTries + 1),
                         E0("onReconnectFail")>>
             /\ pending' = pending - 1
             /\ reconnectTries' > maxReconnectTries
             /\ reconnectDelay' = reconnectDelay]_vars

C22_Witness ==
    /\ enableReconnect
    /\ act.e = "onError"
    /\ reconnectTries = maxReconnectTries + 2
    /\ out[Len(out)].e = "onReconnectFail"
    /\ pending = 0

====
